---- MODULE Spec2Model ----
(***************************************************************************)
(* Verification model of the D-LinkNet road-extraction pipeline:           *)
(*   - DLinkNetModel.test_step (src/main_segment.py): the 8-view           *)
(*     test-time-augmentation loop, its inverse transforms and its         *)
(*     two-stage threshold;                                                *)
(*   - the network family of src/networks/dinknet.py: the shape            *)
(*     arithmetic of forward, DecoderBlock, and the residual accumulation  *)
(*     of DBlock / DBlockMoreDilate;                                       *)
(*   - the losses and the metric of shared_step / test_step, and the       *)
(*     control flow of main (src/main_segment.py).                         *)
(* Tensors are records [h, w, px]: px maps <<row, column>> (0-based, as in *)
(* torch) to a value.  Scores are fixed-point: the integer k stands for    *)
(* the float k / ScoreScale.                                               *)
(***************************************************************************)
EXTENDS Integers, Sequences, FiniteSets, TLC

VARIABLES
    images,            \* batch['image']: the sequence of input images
    net,               \* self.segmentation_model, fixed during test_step
    idx,               \* position of the for loop over images (1-based)
    pc,                \* next line of test_step to execute
    img3, img4,        \* the two batches of views (img5 = img3, img6 = img4)
    pred_a, pred_b,    \* the two network outputs
    pred1, pred2,      \* after reverting the horizontal / vertical flip
    tmp,               \* the nested expression of line 82, innermost first
    pred3,             \* accumulated score, thresholded in place
    predictions_list,
    predictions,       \* torch.stack(predictions_list)
    \* a network of networks/dinknet.py and one call of its forward
    arch,              \* the constructed network: its class and up_sample
    fpc,               \* next statement of __init__ / forward
    inp,               \* shape of the input batch
    x,                 \* shape of the tensor flowing through forward
    stage,             \* index of the encoder / decoder stage to run next
    e,                 \* shapes of the encoder feature maps e1..e5
    out,               \* shape of the returned tensor
    \* one call of DBlock.forward / DBlockMoreDilate.forward on values
    block,             \* the block: its class and the weights of its convolutions
    cpc,               \* next statement of the block's forward
    cx,                \* the argument x
    dilate_outs,       \* dilate1_out, dilate2_out, ... computed so far
    center_out,        \* the returned tensor
    \* one run of main (src/main_segment.py)
    mpc,               \* next statement of main to execute
    batch_size,        \* PARAMS.batch_size
    test_batch_size,
    test_ckpt_path,    \* PARAMS.test_ckpt_path
    calls,             \* the calls of trainer.fit / trainer.test made so far
    \* the steps the trainer runs on one DLinkNetModel object
    kind,              \* the step that ran last
    pair,              \* its (predictions, labels) pair
    result,            \* the (loss_bce, loss_dice, accuracy) it computed
    metric,            \* the state self.metric has accumulated
    nsteps             \* number of steps run so far

ttaVars == <<images, net, idx, pc, img3, img4, pred_a, pred_b, pred1, pred2,
             tmp, pred3, predictions_list, predictions>>

fwdVars == <<arch, fpc, stage, inp, x, e, out>>

ctrVars == <<block, cpc, cx, dilate_outs, center_out>>

mainVars == <<mpc, batch_size, test_batch_size, test_ckpt_path, calls>>

stepVars == <<kind, pair, result, metric, nsteps>>

vars == <<ttaVars, fwdVars, ctrVars, mainVars, stepVars>>

(***************************************************************************)
(* Bounds of the model.                                                    *)
(***************************************************************************)
\* image height and width range over 1..MaxSide
MaxSide == 3
\* a batch holds 1..MaxBatch images
MaxBatch == 2
\* a network output is k / ScoreScale, k in 0..ScoreScale
ScoreScale == 2

Pix == {0, 1}       \* abstract pixel values (one value per channel vector)
Scores == 0..ScoreScale

(***************************************************************************)
(* Tensors and the torch operations test_step uses.                        *)
(***************************************************************************)
Coords(h, w) == (0..(h - 1)) \X (0..(w - 1))

Tensor(h, w, px) == [h |-> h, w |-> w, px |-> px]

NoTensor == [h |-> 0, w |-> 0, px |-> <<>>]

SameShape(a, b) == a.h = b.h /\ a.w = b.w

\* torch.rot90(t, k=1, dims=[H, W]): out[i, j] = t[j, W - 1 - i], shape (W, H)
Rot90(t) ==
    Tensor(t.w, t.h, [p \in Coords(t.w, t.h) |-> t.px[<<p[2], t.w - 1 - p[1]>>]])

\* torch.flip along the height axis (dims=[2] of a batch, dims=[1] of a map)
FlipH(t) ==
    Tensor(t.h, t.w, [p \in Coords(t.h, t.w) |-> t.px[<<t.h - 1 - p[1], p[2]>>]])

\* torch.flip along the width axis (dims=[3] of a batch, dims=[2] of a map)
FlipW(t) ==
    Tensor(t.h, t.w, [p \in Coords(t.h, t.w) |-> t.px[<<p[1], t.w - 1 - p[2]>>]])

\* elementwise a + b of two maps of the same shape
AddT(a, b) ==
    Tensor(a.h, a.w, [p \in Coords(a.h, a.w) |-> a.px[p] + b.px[p]])

\* the boolean masks t > c, t <= c, t >= 1/den, t < 1/den, as sets of places
MaskGt(t, c) == {p \in Coords(t.h, t.w) : t.px[p] > c}
MaskLe(t, c) == {p \in Coords(t.h, t.w) : t.px[p] <= c}
MaskGeFrac(t, num, den) == {p \in Coords(t.h, t.w) : t.px[p] * den >= num}
MaskLtFrac(t, num, den) == {p \in Coords(t.h, t.w) : t.px[p] * den < num}

\* t[mask] = v
MaskedAssign(t, mask, v) ==
    Tensor(t.h, t.w, [p \in Coords(t.h, t.w) |-> IF p \in mask THEN v ELSE t.px[p]])

\* torch.flip of a batch, sample by sample
FlipBatchH(b) == [k \in 1..Len(b) |-> FlipH(b[k])]
FlipBatchW(b) == [k \in 1..Len(b) |-> FlipW(b[k])]

(***************************************************************************)
(* The network.  Its weights are not part of test_step; it is one of       *)
(*   "pixel": out[i, j] = f[im[i, j]]          (a per-pixel function)      *)
(*   "shift": out[i, j] = f[im[i, (j+1) % W]]  (an off-centre kernel)      *)
(* In evaluation mode every sample of a batch is processed on its own.     *)
(***************************************************************************)
Nets == [kind : {"pixel", "shift"}, f : [Pix -> Scores]]

NetOne(n, im) ==
    Tensor(im.h, im.w,
           [p \in Coords(im.h, im.w) |->
               IF n.kind = "pixel" THEN n.f[im.px[p]]
               ELSE n.f[im.px[<<p[1], (p[2] + 1) % im.w>>]]])

Forward(n, batch) == [k \in 1..Len(batch) |-> NetOne(n, batch[k])]

(***************************************************************************)
(* Inputs.                                                                 *)
(***************************************************************************)
Shapes == (1..MaxSide) \X (1..MaxSide)

\* the dark image with the pixels of `on` lit
Marked(h, w, on) == Tensor(h, w, [p \in Coords(h, w) |-> IF p \in on THEN 1 ELSE 0])

\* images of every shape: dark, or with one or two lit pixels anywhere
AllImages ==
    UNION {{Marked(s[1], s[2], {})}
               \cup {Marked(s[1], s[2], {a, b}) : a, b \in Coords(s[1], s[2])} :
           s \in Shapes}

\* the dark image and the image with its top-left pixel lit
ProbeImages(h, w) == {Marked(h, w, {}), Marked(h, w, {<<0, 0>>})}

SeqsUpTo(S, n) == UNION {[1..m -> S] : m \in 1..n}

\* batches of one image, and batches of up to MaxBatch probe images; a
\* batch is one tensor, so its images share one shape
Batches ==
    [1..1 -> AllImages]
        \cup UNION {SeqsUpTo(ProbeImages(s[1], s[2]), MaxBatch) : s \in Shapes}

(***************************************************************************)
(* Constants of the two-stage threshold, lines 84-89.                      *)
(***************************************************************************)
\* pred3 > 4.0, pred3 <= 4.0
VoteThreshold == 4
\* pred3[...] = 255, pred3 / 255.0
White == 255
\* 0.5 = 1 / HalfDen
HalfDen == 2

\* fixed-point images of the float constants
Fix(c) == c * ScoreScale

(***************************************************************************)
(* test_step, one action per line (line 82 per call, innermost first).     *)
(***************************************************************************)
TTAInit ==
    /\ images \in Batches
    /\ net \in Nets
    /\ idx = 1
    /\ pc = "for"
    /\ img3 = <<>> /\ img4 = <<>>
    /\ pred_a = <<>> /\ pred_b = <<>>
    /\ pred1 = <<>> /\ pred2 = <<>>
    /\ tmp = NoTensor /\ pred3 = NoTensor
    /\ predictions_list = <<>>
    /\ predictions = <<>>

\* lines 63-67: the batch of 4 views and its horizontally flipped copy
Img1(img) == <<img, Rot90(img)>>
\* mutant: the second pair is flipped along the width, not the height
Img2_WidthFlip(img) == FlipBatchW(Img1(img))
Img2(img) == FlipBatchH(Img1(img))
Img3(img) == Img1(img) \o Img2(img)
Img4(img) == FlipBatchW(Img3(img))

\* mutant: the stack takes tensors of any two shapes
CanStack_Always(img) == TRUE

\* line 64: torch.stack needs tensors of one shape
CanStack(img) == SameShape(img, Rot90(img))

\* mutant: the batch of 4 is split into two halves of 2
Views_Halves ==
    /\ pc = "for" /\ idx <= Len(images)
    /\ CanStack(images[idx])
    /\ img3' = Img1(images[idx])
    /\ img4' = FlipBatchW(Img2(images[idx]))
    /\ pc' = "l77"
    /\ UNCHANGED <<images, net, idx, pred_a, pred_b, pred1, pred2, tmp, pred3,
                   predictions_list, predictions>>
    /\ UNCHANGED <<fwdVars, ctrVars, mainVars, stepVars>>

\* lines 62-75
Views ==
    /\ pc = "for" /\ idx <= Len(images)
    /\ CanStack(images[idx])
    /\ img3' = Img3(images[idx])
    /\ img4' = Img4(images[idx])
    /\ pc' = "l77"
    /\ UNCHANGED <<images, net, idx, pred_a, pred_b, pred1, pred2, tmp, pred3,
                   predictions_list, predictions>>
    /\ UNCHANGED <<fwdVars, ctrVars, mainVars, stepVars>>

\* line 64 raising: the exception leaves test_step
StackRaises ==
    /\ pc = "for" /\ idx <= Len(images)
    /\ ~CanStack(images[idx])
    /\ pc' = "raised"
    /\ UNCHANGED <<images, net, idx, img3, img4, pred_a, pred_b, pred1, pred2,
                   tmp, pred3, predictions_list, predictions>>
    /\ UNCHANGED <<fwdVars, ctrVars, mainVars, stepVars>>

\* line 77
ForwardA ==
    /\ pc = "l77"
    /\ pred_a' = Forward(net, img3)
    /\ pc' = "l78"
    /\ UNCHANGED <<images, net, idx, img3, img4, pred_b, pred1, pred2, tmp,
                   pred3, predictions_list, predictions>>
    /\ UNCHANGED <<fwdVars, ctrVars, mainVars, stepVars>>

\* line 78
ForwardB ==
    /\ pc = "l78"
    /\ pred_b' = Forward(net, img4)
    /\ pc' = "l80"
    /\ UNCHANGED <<images, net, idx, img3, img4, pred_a, pred1, pred2, tmp,
                   pred3, predictions_list, predictions>>
    /\ UNCHANGED <<fwdVars, ctrVars, mainVars, stepVars>>

\* mutant: the horizontal flip of the second output is not reverted
RevertH_NoFlip ==
    /\ pc = "l80"
    /\ pred1' = [k \in 1..Len(pred_a) |-> AddT(pred_a[k], pred_b[k])]
    /\ pc' = "l81"
    /\ UNCHANGED <<images, net, idx, img3, img4, pred_a, pred_b, pred2, tmp,
                   pred3, predictions_list, predictions>>
    /\ UNCHANGED <<fwdVars, ctrVars, mainVars, stepVars>>

\* line 80: pred1 = pred_a + torch.flip(pred_b, dims=[3])
RevertH ==
    /\ pc = "l80"
    /\ pred1' = [k \in 1..Len(pred_a) |-> AddT(pred_a[k], FlipW(pred_b[k]))]
    /\ pc' = "l81"
    /\ UNCHANGED <<images, net, idx, img3, img4, pred_a, pred_b, pred2, tmp,
                   pred3, predictions_list, predictions>>
    /\ UNCHANGED <<fwdVars, ctrVars, mainVars, stepVars>>

\* mutant: the vertically flipped half is dropped
RevertV_DropHalf ==
    /\ pc = "l81"
    /\ pred2' = [k \in 1..2 |-> pred1[k]]
    /\ pc' = "l82_rot"
    /\ UNCHANGED <<images, net, idx, img3, img4, pred_a, pred_b, pred1, tmp,
                   pred3, predictions_list, predictions>>
    /\ UNCHANGED <<fwdVars, ctrVars, mainVars, stepVars>>

\* line 81: pred2 = pred1[:2] + torch.flip(pred1[2:], dims=[2])
RevertV ==
    /\ pc = "l81"
    /\ pred2' = [k \in 1..2 |-> AddT(pred1[k], FlipH(pred1[k + 2]))]
    /\ pc' = "l82_rot"
    /\ UNCHANGED <<images, net, idx, img3, img4, pred_a, pred_b, pred1, tmp,
                   pred3, predictions_list, predictions>>
    /\ UNCHANGED <<fwdVars, ctrVars, mainVars, stepVars>>

\* mutant: the innermost call is the horizontal flip
Rot82_FlipFirst ==
    /\ pc = "l82_rot"
    /\ tmp' = FlipW(pred2[2])
    /\ pc' = "l82_flip1"
    /\ UNCHANGED <<images, net, idx, img3, img4, pred_a, pred_b, pred1, pred2,
                   pred3, predictions_list, predictions>>
    /\ UNCHANGED <<fwdVars, ctrVars, mainVars, stepVars>>

\* line 82, innermost call: torch.rot90(pred2[1], k=1, dims=[1, 2])
Rot82 ==
    /\ pc = "l82_rot"
    /\ tmp' = Rot90(pred2[2])
    /\ pc' = "l82_flip1"
    /\ UNCHANGED <<images, net, idx, img3, img4, pred_a, pred_b, pred1, pred2,
                   pred3, predictions_list, predictions>>
    /\ UNCHANGED <<fwdVars, ctrVars, mainVars, stepVars>>

\* line 82, middle call: torch.flip(..., dims=[1])
Flip82Inner ==
    /\ pc = "l82_flip1"
    /\ tmp' = FlipH(tmp)
    /\ pc' = "l82_flip2"
    /\ UNCHANGED <<images, net, idx, img3, img4, pred_a, pred_b, pred1, pred2,
                   pred3, predictions_list, predictions>>
    /\ UNCHANGED <<fwdVars, ctrVars, mainVars, stepVars>>

\* line 82, outer call: torch.flip(..., dims=[2])
Flip82Outer ==
    /\ pc = "l82_flip2"
    /\ tmp' = FlipW(tmp)
    /\ pc' = "l82_add"
    /\ UNCHANGED <<images, net, idx, img3, img4, pred_a, pred_b, pred1, pred2,
                   pred3, predictions_list, predictions>>
    /\ UNCHANGED <<fwdVars, ctrVars, mainVars, stepVars>>

\* line 82, the sum: pred3 = pred2[0] + ...
Add82 ==
    /\ pc = "l82_add"
    /\ pred3' = AddT(pred2[1], tmp)
    /\ pc' = "l84"
    /\ UNCHANGED <<images, net, idx, img3, img4, pred_a, pred_b, pred1, pred2,
                   tmp, predictions_list, predictions>>
    /\ UNCHANGED <<fwdVars, ctrVars, mainVars, stepVars>>

\* mutant: the first comparison is not strict
Thresh84_NotStrict ==
    /\ pc = "l84"
    /\ pred3' = MaskedAssign(pred3, MaskGeFrac(pred3, Fix(VoteThreshold), 1), Fix(White))
    /\ pc' = "l85"
    /\ UNCHANGED <<images, net, idx, img3, img4, pred_a, pred_b, pred1, pred2,
                   tmp, predictions_list, predictions>>
    /\ UNCHANGED <<fwdVars, ctrVars, mainVars, stepVars>>

\* line 84: pred3[pred3 > 4.0] = 255
Thresh84 ==
    /\ pc = "l84"
    /\ pred3' = MaskedAssign(pred3, MaskGt(pred3, Fix(VoteThreshold)), Fix(White))
    /\ pc' = "l85"
    /\ UNCHANGED <<images, net, idx, img3, img4, pred_a, pred_b, pred1, pred2,
                   tmp, predictions_list, predictions>>
    /\ UNCHANGED <<fwdVars, ctrVars, mainVars, stepVars>>

\* mutant: line 85 compares with 255, so it also hits what line 84 wrote
Thresh85_HitsWhite ==
    /\ pc = "l85"
    /\ pred3' = MaskedAssign(pred3, MaskLe(pred3, Fix(White)), 0)
    /\ pc' = "l87"
    /\ UNCHANGED <<images, net, idx, img3, img4, pred_a, pred_b, pred1, pred2,
                   tmp, predictions_list, predictions>>
    /\ UNCHANGED <<fwdVars, ctrVars, mainVars, stepVars>>

\* line 85: pred3[pred3 <= 4.0] = 0
Thresh85 ==
    /\ pc = "l85"
    /\ pred3' = MaskedAssign(pred3, MaskLe(pred3, Fix(VoteThreshold)), 0)
    /\ pc' = "l87"
    /\ UNCHANGED <<images, net, idx, img3, img4, pred_a, pred_b, pred1, pred2,
                   tmp, predictions_list, predictions>>
    /\ UNCHANGED <<fwdVars, ctrVars, mainVars, stepVars>>

\* line 87: pred3 = pred3 / 255.0 (exact on the values lines 84-85 leave)
Div87 ==
    /\ pc = "l87"
    /\ pred3' = Tensor(pred3.h, pred3.w,
                       [p \in Coords(pred3.h, pred3.w) |-> pred3.px[p] \div White])
    /\ pc' = "l88"
    /\ UNCHANGED <<images, net, idx, img3, img4, pred_a, pred_b, pred1, pred2,
                   tmp, predictions_list, predictions>>
    /\ UNCHANGED <<fwdVars, ctrVars, mainVars, stepVars>>

\* line 88: pred3[pred3 >= 0.5] = 1.0
Thresh88 ==
    /\ pc = "l88"
    /\ pred3' = MaskedAssign(pred3, MaskGeFrac(pred3, Fix(1), HalfDen), Fix(1))
    /\ pc' = "l89"
    /\ UNCHANGED <<images, net, idx, img3, img4, pred_a, pred_b, pred1, pred2,
                   tmp, predictions_list, predictions>>
    /\ UNCHANGED <<fwdVars, ctrVars, mainVars, stepVars>>

\* line 89: pred3[pred3 < 0.5] = 0.0
Thresh89 ==
    /\ pc = "l89"
    /\ pred3' = MaskedAssign(pred3, MaskLtFrac(pred3, Fix(1), HalfDen), 0)
    /\ pc' = "l91"
    /\ UNCHANGED <<images, net, idx, img3, img4, pred_a, pred_b, pred1, pred2,
                   tmp, predictions_list, predictions>>
    /\ UNCHANGED <<fwdVars, ctrVars, mainVars, stepVars>>

\* mutant: the mask is put in front of the list
Append91_Front ==
    /\ pc = "l91"
    /\ predictions_list' = <<pred3>> \o predictions_list
    /\ idx' = idx + 1
    /\ pc' = "for"
    /\ UNCHANGED <<images, net, img3, img4, pred_a, pred_b, pred1, pred2, tmp,
                   pred3, predictions>>
    /\ UNCHANGED <<fwdVars, ctrVars, mainVars, stepVars>>

\* line 91, and the loop moves to the next image
Append91 ==
    /\ pc = "l91"
    /\ predictions_list' = Append(predictions_list, pred3)
    /\ idx' = idx + 1
    /\ pc' = "for"
    /\ UNCHANGED <<images, net, img3, img4, pred_a, pred_b, pred1, pred2, tmp,
                   pred3, predictions>>
    /\ UNCHANGED <<fwdVars, ctrVars, mainVars, stepVars>>

\* line 93, after the loop
Stack93 ==
    /\ pc = "for" /\ idx > Len(images)
    /\ predictions' = predictions_list
    /\ pc' = "done"
    /\ UNCHANGED <<images, net, idx, img3, img4, pred_a, pred_b, pred1, pred2,
                   tmp, pred3, predictions_list>>
    /\ UNCHANGED <<fwdVars, ctrVars, mainVars, stepVars>>

\* no network call is in progress
NoShape == [b |-> 0, c |-> 0, h |-> 0, w |-> 0]

FwdIdle ==
    /\ arch = [cls |-> "none", up |-> "none", backbone |-> "none", resnet |-> "none"]
    /\ fpc = "idle" /\ stage = 0
    /\ inp = NoShape /\ x = NoShape /\ out = NoShape
    /\ e = [k \in 1..5 |-> NoShape]

\* no center block call is in progress
NoVolume == [c |-> 0, h |-> 0, w |-> 0, v |-> <<>>]

CtrIdle ==
    /\ block = [cls |-> "none", kernel |-> "none"]
    /\ cpc = "idle"
    /\ cx = NoVolume /\ center_out = NoVolume
    /\ dilate_outs = <<>>

\* main has not been started
MainIdle ==
    /\ mpc = "idle"
    /\ batch_size = 0 /\ test_batch_size = 0
    /\ test_ckpt_path = "None"
    /\ calls = <<>>

\* the confusion counts of a BinaryJaccardIndex that was just built
ZeroState == [tp |-> 0, fp |-> 0, fn |-> 0, tn |-> 0]

NoBatch == [p |-> <<>>, g |-> <<>>]
NoResult == [bce |-> "none", dice |-> "none", iou |-> "none"]

\* no step has run
StepsIdle ==
    /\ kind = "none"
    /\ pair = NoBatch /\ result = NoResult
    /\ metric = ZeroState
    /\ nsteps = 0

Init == TTAInit /\ FwdIdle /\ CtrIdle /\ MainIdle /\ StepsIdle

Next ==
    \/ Views
    \/ StackRaises
    \/ ForwardA
    \/ ForwardB
    \/ RevertH
    \/ RevertV
    \/ Rot82
    \/ Flip82Inner
    \/ Flip82Outer
    \/ Add82
    \/ Thresh84
    \/ Thresh85
    \/ Div87
    \/ Thresh88
    \/ Thresh89
    \/ Append91
    \/ Stack93

Spec == Init /\ [][Next]_vars

(***************************************************************************)
(* Properties of test_step.                                                *)
(***************************************************************************)
Square(t) == t.h = t.w

\* the image of the current iteration, and the network's single pass on it
CurImage == images[idx]
SinglePass == NetOne(net, CurImage)

\* positions of test_step at which pred3 holds the accumulated score
AtAccumulated == pc = "l84"

\* the 8 views of an image, in the order the network receives them
ViewsOf(t) == Img3(t) \o Img4(t)

\* the network commutes with the 8 transforms on this image
CommutesOn(n, t) ==
    \A k \in 1..8 : NetOne(n, ViewsOf(t)[k]) = ViewsOf(NetOne(n, t))[k]

\* the network returns one constant score map whatever its input
ConstantNet(n) == \A u, v \in Pix : n.f[u] = n.f[v]

\* the 8 transforms as maps from an output coordinate to the input
\* coordinate it reads, on an n x n grid
SourceOf(name, n, p) ==
    CASE name = "id"            -> <<p[1], p[2]>>
      [] name = "rot90"         -> <<p[2], n - 1 - p[1]>>
      [] name = "vflip"         -> <<n - 1 - p[1], p[2]>>
      [] name = "rot90_vflip"   -> <<p[2], p[1]>>
      [] name = "hflip"         -> <<p[1], n - 1 - p[2]>>
      [] name = "rot90_hflip"   -> <<n - 1 - p[2], n - 1 - p[1]>>
      [] name = "vflip_hflip"   -> <<n - 1 - p[1], n - 1 - p[2]>>
      [] name = "rot90_vflip_hflip" -> <<n - 1 - p[2], p[1]>>

ViewNames == <<"id", "rot90", "vflip", "rot90_vflip",
               "hflip", "rot90_hflip", "vflip_hflip", "rot90_vflip_hflip">>

Permuted(name, t) ==
    Tensor(t.h, t.w, [p \in Coords(t.h, t.w) |-> t.px[SourceOf(name, t.h, p)]])

\* the coordinate that view `name` reads from p is the place where the
\* view's output for p has to be put back
PutBack(name, n, p) == CHOOSE q \in Coords(n, n) : SourceOf(name, n, q) = p

RECURSIVE VoteSum(_, _, _, _)
VoteSum(n, t, p, k) ==
    IF k = 0 THEN 0
    ELSE NetOne(n, Permuted(ViewNames[k], t)).px[PutBack(ViewNames[k], t.h, p)]
             + VoteSum(n, t, p, k - 1)

\* C1: for a square image, each of the 8 view outputs is put back by the
\* inverse of its view's transform before being summed, and for a network
\* that commutes with the transforms the accumulated pre-threshold score at
\* every pixel is 8 times the single-pass output at that pixel
C1_Alignment ==
    AtAccumulated
        => /\ Square(CurImage) /\ SameShape(pred3, CurImage)
           /\ \A p \in Coords(CurImage.h, CurImage.w) :
                  /\ pred3.px[p] = VoteSum(net, CurImage, p, 8)
                  /\ CommutesOn(net, CurImage) => pred3.px[p] = 8 * SinglePass.px[p]

C1_Witness ==
    /\ AtAccumulated /\ CommutesOn(net, CurImage)
    /\ CurImage.h >= 2
    /\ FlipW(SinglePass) # SinglePass /\ FlipH(SinglePass) # SinglePass
    /\ Rot90(SinglePass) # SinglePass

\* C2: with a network that returns the same constant score map for every
\* input, every pixel of the accumulated score is 8 times the constant
C2_ConstantRoundTrip ==
    (AtAccumulated /\ ConstantNet(net))
        => \A p \in Coords(CurImage.h, CurImage.w) :
               pred3.px[p] = 8 * net.f[0] /\ SinglePass.px[p] = net.f[0]

C2_Witness ==
    /\ AtAccumulated /\ ConstantNet(net) /\ net.f[0] > 0
    /\ CurImage.h >= 2
    /\ FlipW(CurImage) # CurImage /\ FlipH(CurImage) # CurImage
    /\ Rot90(CurImage) # CurImage

\* C3: the two forward passes receive exactly the 8 views
\* {id, rot90, vflip, rot90 then vflip} x {no hflip, hflip}, each once, and
\* the 8 transforms are pairwise distinct coordinate permutations (N >= 2)
C3_EightViews ==
    (pc \in {"l77", "l78"})
        => /\ Len(img3) + Len(img4) = 8
           /\ \A k \in 1..8 : (img3 \o img4)[k] = Permuted(ViewNames[k], CurImage)
           /\ CurImage.h >= 2 =>
                \A j, k \in 1..8 : j # k =>
                    \E p \in Coords(CurImage.h, CurImage.w) :
                        SourceOf(ViewNames[j], CurImage.h, p)
                            # SourceOf(ViewNames[k], CurImage.h, p)

C3_Witness ==
    /\ pc = "l78" /\ CurImage.h >= 2
    /\ Cardinality({(img3 \o img4)[k] : k \in 1..8}) = 8

\* C4 as stated: each forward pass receives a batch of exactly 2 views, the
\* first half unmodified and the second half horizontally flipped
C4_HalvesOfTwo ==
    (pc \in {"l77", "l78"})
        => /\ Len(img3) = 2 /\ Len(img4) = 2
           /\ img3 = Img1(CurImage)
           /\ img4 = FlipBatchW(Img2(CurImage))

\* C4 amended: the batch of 4 is not split; the first pass receives all 4
\* views unmodified, the second all 4 views horizontally flipped, so each
\* pass receives (and returns) a batch of exactly 4
C4_BatchesOfFour ==
    /\ (pc \in {"l77", "l78"})
          => /\ Len(img3) = 4 /\ Len(img4) = 4
             /\ \A k \in 1..4 : img3[k] = Permuted(ViewNames[k], CurImage)
             /\ \A k \in 1..4 : img4[k] = FlipW(img3[k])
    /\ (pc = "l80") => Len(pred_a) = 4 /\ Len(pred_b) = 4

C4_Witness ==
    /\ pc = "l80" /\ CurImage.h >= 2
    /\ Cardinality({img3[k] : k \in 1..4}) = 4
    /\ \A k \in 1..4 : img4[k] # img3[k]

\* C5 as stated: line 82 applies a horizontal flip, then a vertical flip,
\* then the rotation that undoes the view's quarter turn, in this order
C5_FlipFlipRotate ==
    /\ (pc = "l82_flip1") => tmp = FlipW(pred2[2])
    /\ (pc = "l82_flip2") => tmp = FlipH(FlipW(pred2[2]))
    /\ (pc = "l82_add") => tmp = Rot90(FlipH(FlipW(pred2[2])))

\* C5 amended: line 82 applies to the rot90-branch score map, in this
\* order, a further quarter turn (rot90, k=1), then a vertical flip
\* (dims=[1]), then a horizontal flip (dims=[2]); the three together undo
\* the rotation of the view, and the result is added to the id-branch map
C5_RotateFlipFlip ==
    /\ (pc = "l82_flip1") => tmp = Permuted("rot90", pred2[2])
    /\ (pc = "l82_flip2") => tmp = Permuted("rot90_vflip", pred2[2])
    /\ (pc \in {"l82_add", "l84"})
          => /\ tmp = Permuted("rot90_vflip_hflip", pred2[2])
             /\ Rot90(tmp) = pred2[2]
    /\ (pc = "l84") => pred3 = AddT(pred2[1], tmp)

C5_Witness ==
    /\ pc = "l84"
    /\ Rot90(pred2[2]) # FlipW(pred2[2])
    /\ FlipH(Rot90(pred2[2])) # FlipH(FlipW(pred2[2]))
    /\ tmp # pred2[2]

\* the accumulated score that line 82 computed, while pred3 is thresholded
Accumulated == AddT(pred2[1], tmp)

\* C6: the final mask is 1 exactly where the accumulated 8-view score is
\* strictly greater than 4.0 (a score of exactly 4.0 gives 0), and every
\* value of the returned masks is 0 or 1
C6_Threshold ==
    /\ (pc = "l91")
          => \A p \in Coords(pred3.h, pred3.w) :
                 /\ (pred3.px[p] = Fix(1)) <=> (Accumulated.px[p] > Fix(VoteThreshold))
                 /\ (pred3.px[p] = 0) <=> ~(Accumulated.px[p] > Fix(VoteThreshold))
    /\ (pc = "done")
          => \A i \in 1..Len(predictions) :
                 \A p \in Coords(predictions[i].h, predictions[i].w) :
                     predictions[i].px[p] \in {0, Fix(1)}

C6_Witness ==
    /\ pc = "l91"
    /\ \E p, q \in Coords(pred3.h, pred3.w) :
           /\ Accumulated.px[p] = Fix(VoteThreshold) /\ pred3.px[p] = 0
           /\ Accumulated.px[q] > Fix(VoteThreshold) /\ pred3.px[q] = Fix(1)

\* the mask of one image, from that image alone
MaskOfImage(n, t) ==
    Tensor(t.h, t.w, [p \in Coords(t.h, t.w) |->
        IF VoteSum(n, t, p, 8) > Fix(VoteThreshold) THEN Fix(1) ELSE 0])

\* C7: test_step returns one mask per input image, in the order of the
\* input images, and the mask of image i depends on image i alone
C7_OneMaskPerImage ==
    /\ Len(predictions_list) = idx - 1
    /\ (pc = "for")
          => \A i \in 1..Len(predictions_list) :
                 predictions_list[i] = MaskOfImage(net, images[i])
    /\ (pc = "done")
          => /\ Len(predictions) = Len(images)
             /\ \A i \in 1..Len(images) : predictions[i] = MaskOfImage(net, images[i])

C7_Witness ==
    /\ pc = "done" /\ Len(images) >= 2
    /\ images[1] # images[2]
    /\ predictions[1] # predictions[2]
    /\ net.kind = "shift"

\* the pixels the single test 'score > 4.0' selects
Road == MaskGt(Accumulated, Fix(VoteThreshold))
NotRoad == Coords(pred3.h, pred3.w) \ Road

\* C17: the masked assignments of lines 84-89 never re-classify a pixel an
\* earlier one wrote: line 85 writes exactly the pixels line 84 left, line
\* 89 exactly the pixels line 88 left, and the second stage keeps the
\* decision of the first, which is the single test 'score > 4.0'
C17_NoReclassification ==
    /\ (pc = "l85")
          => /\ \A p \in Road : pred3.px[p] = Fix(White)
             /\ \A p \in NotRoad : pred3.px[p] = Accumulated.px[p]
             /\ MaskLe(pred3, Fix(VoteThreshold)) = NotRoad
    /\ (pc = "l87")
          => /\ \A p \in Road : pred3.px[p] = Fix(White)
             /\ \A p \in NotRoad : pred3.px[p] = 0
    /\ (pc = "l88")
          => /\ MaskGeFrac(pred3, Fix(1), HalfDen) = Road
             /\ MaskLtFrac(pred3, Fix(1), HalfDen) = NotRoad
    /\ (pc = "l89")
          => /\ \A p \in Road : pred3.px[p] = Fix(1)
             /\ MaskLtFrac(pred3, Fix(1), HalfDen) = NotRoad
    /\ (pc = "l91")
          => /\ \A p \in Road : pred3.px[p] = Fix(1)
             /\ \A p \in NotRoad : pred3.px[p] = 0

C17_Witness ==
    /\ pc = "l89"
    /\ \E p \in Road : \E q \in NotRoad :
           /\ pred3.px[p] = Fix(1) /\ Accumulated.px[p] # Fix(1)
           /\ Accumulated.px[q] > Fix(1)

\* positions of test_step inside the loop body, after line 66
InBody == pc \notin {"idle", "for", "done", "raised"}

\* C18: for an image with H # W, stacking the image with its rotation
\* raises before the network is invoked and no mask is appended for it;
\* for H = W the stacking always succeeds
C18_SquareOnly ==
    /\ (pc = "raised")
          => /\ ~Square(CurImage)
             /\ pred_a = <<>> /\ pred_b = <<>>
             /\ predictions_list = <<>> /\ predictions = <<>>
    /\ InBody => Square(CurImage)
    /\ (pc = "for" /\ idx <= Len(images))
          => (Square(CurImage) <=> CanStack(CurImage))
    /\ (pc = "done") => \A i \in 1..Len(images) : Square(images[i])

C18_Witness ==
    /\ pc = "raised"
    /\ CurImage.h # CurImage.w
    /\ Len(images) = MaxBatch
    /\ predictions_list = <<>>

(***************************************************************************)
(* networks/dinknet.py: shapes.  A shape is [b, c, h, w]; an operation     *)
(* that raises returns NoShape, and so does every operation on NoShape.    *)
(***************************************************************************)
\* batch sizes range over 1..MaxB
MaxB == 2
\* input sides: the powers of two up to 2^MaxLog and 32, 64, .., 32*MaxUnits
MaxLog == 10
MaxUnits == 3

RECURSIVE Pow2(_)
Pow2(k) == IF k = 0 THEN 1 ELSE 2 * Pow2(k - 1)

Sizes == {Pow2(k) : k \in 0..MaxLog} \cup {32 * k : k \in 1..MaxUnits}

Shape(b, c, h, w) == [b |-> b, c |-> c, h |-> h, w |-> w]

\* output side of nn.Conv2d / nn.MaxPool2d
ConvOut(n, k, s, p, d) == (n + 2 * p - d * (k - 1) - 1) \div s + 1

\* output side of nn.ConvTranspose2d
DeconvOut(n, k, s, p, op) == (n - 1) * s - 2 * p + (k - 1) + op + 1

\* nn.Conv2d(cin, cout, k, stride=s, padding=p, dilation=d)
Conv2d(t, cin, cout, k, s, p, d) ==
    IF t = NoShape \/ t.c # cin \/ cout < 1
         \/ t.h + 2 * p < d * (k - 1) + 1 \/ t.w + 2 * p < d * (k - 1) + 1
    THEN NoShape
    ELSE Shape(t.b, cout, ConvOut(t.h, k, s, p, d), ConvOut(t.w, k, s, p, d))

\* nn.ConvTranspose2d(cin, cout, k, stride=s, padding=p, output_padding=op)
ConvTranspose2d(t, cin, cout, k, s, p, op) ==
    IF t = NoShape \/ t.c # cin \/ cout < 1
         \/ DeconvOut(t.h, k, s, p, op) < 1 \/ DeconvOut(t.w, k, s, p, op) < 1
    THEN NoShape
    ELSE Shape(t.b, cout, DeconvOut(t.h, k, s, p, op), DeconvOut(t.w, k, s, p, op))

\* nn.BatchNorm2d(c)
BatchNorm2d(t, c) == IF t = NoShape \/ t.c # c THEN NoShape ELSE t

\* a + b and a * b with torch broadcasting: sizes agree or one of them is 1
Fits(m, n) == m = n \/ m = 1 \/ n = 1
Wide(m, n) == IF m = 1 THEN n ELSE m

Broadcast(a, b) ==
    IF a = NoShape \/ b = NoShape
         \/ ~(Fits(a.b, b.b) /\ Fits(a.c, b.c) /\ Fits(a.h, b.h) /\ Fits(a.w, b.w))
    THEN NoShape
    ELSE Shape(Wide(a.b, b.b), Wide(a.c, b.c), Wide(a.h, b.h), Wide(a.w, b.w))

\* torch.cat((a, b), dim=1)
Cat1(a, b) ==
    IF a = NoShape \/ b = NoShape \/ a.b # b.b \/ a.h # b.h \/ a.w # b.w
    THEN NoShape
    ELSE Shape(a.b, a.c + b.c, a.h, a.w)

\* DecoderBlock(in_channels, n_filters), lines 73-83 and 86-94
DecoderConv1(t, cin) == BatchNorm2d(Conv2d(t, cin, cin \div 4, 1, 1, 0, 1), cin \div 4)
\* mutant: the transposed convolution has no output padding
DecoderDeconv2_NoOutputPadding(t, cin) ==
    BatchNorm2d(ConvTranspose2d(t, cin \div 4, cin \div 4, 3, 2, 1, 0), cin \div 4)
DecoderDeconv2(t, cin) ==
    BatchNorm2d(ConvTranspose2d(t, cin \div 4, cin \div 4, 3, 2, 1, 1), cin \div 4)
DecoderConv3(t, cin, n) == BatchNorm2d(Conv2d(t, cin \div 4, n, 1, 1, 0, 1), n)

DecoderBlock(t, cin, n) == DecoderConv3(DecoderDeconv2(DecoderConv1(t, cin), cin), cin, n)

\* DBlock(channel) / DBlockMoreDilate(channel): the chain of dilated 3x3
\* convolutions, each with padding = dilation, and the sum of all stages
RECURSIVE DilateChain(_, _, _)
DilateChain(t, channel, dilations) ==
    IF dilations = <<>> THEN <<>>
    ELSE LET y == Conv2d(t, channel, channel, 3, 1, Head(dilations), Head(dilations))
         IN  <<y>> \o DilateChain(y, channel, Tail(dilations))

RECURSIVE SumShapes(_, _)
SumShapes(t, ys) == IF ys = <<>> THEN t ELSE SumShapes(Broadcast(t, Head(ys)), Tail(ys))

DBlockDilations == <<1, 2, 4, 8>>
DBlockMoreDilateDilations == <<1, 2, 4, 8, 16>>

DBlock(t, channel) == SumShapes(t, DilateChain(t, channel, DBlockDilations))
DBlockMoreDilate(t, channel) ==
    SumShapes(t, DilateChain(t, channel, DBlockMoreDilateDilations))

(***************************************************************************)
(* The classes of the family.                                              *)
(***************************************************************************)
Classes == {"DLinkNet18", "DLinkNet18HeadsV1", "DLinkNet18HeadsV2",
            "DLinkNet18HeadsV3", "CBAMDLinkNet18", "DLinkNet34LessPool",
            "DLinkNet34", "DLinkNet50", "DLinkNet101", "LinkNet34"}

\* filters = [64, 128, 256, 512] or [256, 512, 1024, 2048]
Filters(cls) ==
    IF cls \in {"DLinkNet50", "DLinkNet101"}
    THEN <<256, 512, 1024, 2048>> ELSE <<64, 128, 256, 512>>

\* the classes whose __init__ has a backbone parameter
HasBackbone(cls) == cls \notin {"DLinkNet34LessPool", "DLinkNet101", "LinkNet34"}

\* the backbone strings the if/elif chain of each __init__ accepts
Accepted(cls) ==
    CASE ~HasBackbone(cls) -> {}
      [] cls = "DLinkNet34" -> {"random", "imagenet", "seco-1m"}
      [] OTHER -> {"random", "imagenet", "seco-100k", "seco-1m"}

\* the default of the backbone parameter; the classes without the
\* parameter always load the pretrained (imagenet) network
DefaultBackbone(cls) ==
    IF HasBackbone(cls) /\ cls \notin {"DLinkNet34", "DLinkNet50"}
    THEN "seco-1m" ELSE "imagenet"

\* the backbone argument of a construction: left out, or a string
BackboneArgs(cls) == {"omitted", "random", "imagenet", "seco-100k", "seco-1m", "bogus"}

\* interp_mode is a parameter of DLinkNet34 only
InterpArgs(cls) == IF cls = "DLinkNet34" THEN {"none", "bilinear"} ELSE {"none"}

\* num_classes=1, the default of every class
NumClasses == 1
\* nn.Upsample(size=(1024, 1024))
UpSize == 1024
\* in_channels of resnet.conv1
InChannels == 3

\* number of encoder stages, index of the first decoder
Depth(cls) ==
    CASE cls = "DLinkNet34LessPool" -> 3
      [] cls = "DLinkNet18HeadsV1" -> 5
      [] OTHER -> 4

TopDecoder(cls) == IF cls = "DLinkNet18HeadsV1" THEN 6 ELSE Depth(cls)

\* decoderK = DecoderBlock(DecIn, DecOut)
DecIn(cls, k) == Filters(cls)[IF k > 4 THEN 4 ELSE k]
DecOut(cls, k) == Filters(cls)[IF k > 4 THEN 4 ELSE IF k = 1 THEN 1 ELSE k - 1]

\* resnet.conv1, bn1, relu: Conv2d(3, 64, 7, stride=2, padding=3)
Stem(t) == BatchNorm2d(Conv2d(t, InChannels, 64, 7, 2, 3, 1), 64)

\* resnet.maxpool: MaxPool2d(3, stride=2, padding=1)
MaxPool(t) == Conv2d(t, t.c, t.c, 3, 2, 1, 1)

\* resnet.layerK: layer1 keeps the side, the others halve it with a 3x3
\* stride-2 convolution (and a 1x1 stride-2 shortcut); encoder5 of HeadsV1
\* is such a stage of 512 channels
EncoderStage(cls, k, t) ==
    IF t = NoShape THEN NoShape
    ELSE IF k = 1 THEN Shape(t.b, Filters(cls)[1], t.h, t.w)
    ELSE Broadcast(Conv2d(t, t.c, DecIn(cls, k), 3, 2, 1, 1),
                   Conv2d(t, t.c, DecIn(cls, k), 1, 2, 0, 1))

\* self.d_block of each class
CenterBlock(cls, t) ==
    CASE cls \in {"DLinkNet50", "DLinkNet101"} -> DBlockMoreDilate(t, 2048)
      [] cls = "DLinkNet34LessPool" -> DBlockMoreDilate(t, 256)
      [] OTHER -> DBlock(t, 512)

\* moco.resnet18_heads: pooling and linear layers, a vector per sample,
\* kept here as a (b, dim, 1, 1) shape
HeadDim == 128
HeadDecodeDim == 512
HeadOut(t, dim) == IF t = NoShape THEN NoShape ELSE Shape(t.b, dim, 1, 1)

\* CBAMBlock(channel=512): reweights its input
CBAMBlock(t, channel) == IF t = NoShape \/ t.c # channel THEN NoShape ELSE t

(***************************************************************************)
(* __init__ and forward, one action per statement group.                   *)
(***************************************************************************)
TTAIdle ==
    /\ images = <<>> /\ net = [kind |-> "pixel", f |-> [v \in Pix |-> 0]]
    /\ idx = 1 /\ pc = "idle"
    /\ img3 = <<>> /\ img4 = <<>>
    /\ pred_a = <<>> /\ pred_b = <<>>
    /\ pred1 = <<>> /\ pred2 = <<>>
    /\ tmp = NoTensor /\ pred3 = NoTensor
    /\ predictions_list = <<>>
    /\ predictions = <<>>

FwdInit ==
    /\ arch = [cls |-> "none", up |-> "none", backbone |-> "none", resnet |-> "none"]
    /\ fpc = "new" /\ stage = 0
    /\ inp = NoShape /\ x = NoShape /\ out = NoShape
    /\ e = [k \in 1..5 |-> NoShape]

\* the construction that was asked for and did not give an instance
Failed(cls, backbone) == [cls |-> cls, up |-> "none", backbone |-> backbone, resnet |-> "none"]

\* mutant: a string the chain does not know loads the default backbone
Construct_FallsBack ==
    /\ fpc = "new"
    /\ \E cls \in Classes : \E backbone \in BackboneArgs(cls) : \E interp \in InterpArgs(cls) :
          LET known == IF backbone \in Accepted(cls) THEN backbone ELSE DefaultBackbone(cls)
          IN  /\ arch' = [cls |-> cls, up |-> interp, backbone |-> backbone, resnet |-> known]
              /\ fpc' = "built"
    /\ UNCHANGED <<stage, inp, x, e, out>>
    /\ UNCHANGED <<ttaVars, ctrVars, mainVars, stepVars>>

\* cls(backbone=...): a class without the parameter rejects the keyword
\* (TypeError of the call); __init__ runs the if/elif chain on backbone,
\* whose else branch raises ValueError, then builds self.up_sample
Construct ==
    /\ fpc = "new"
    /\ \E cls \in Classes : \E backbone \in BackboneArgs(cls) : \E interp \in InterpArgs(cls) :
          LET requested == IF backbone = "omitted" THEN DefaultBackbone(cls) ELSE backbone
          IN  CASE backbone # "omitted" /\ ~HasBackbone(cls) ->
                     /\ arch' = Failed(cls, backbone)
                     /\ fpc' = "type_error"
                [] HasBackbone(cls) /\ requested \notin Accepted(cls) ->
                     /\ arch' = Failed(cls, backbone)
                     /\ fpc' = "config_error"
                [] OTHER ->
                     /\ arch' = [cls |-> cls, up |-> interp, backbone |-> backbone,
                                 resnet |-> requested]
                     /\ fpc' = "built"
    /\ UNCHANGED <<stage, inp, x, e, out>>
    /\ UNCHANGED <<ttaVars, ctrVars, mainVars, stepVars>>

\* forward(x) is called on a batch
Call ==
    /\ fpc = "built"
    /\ \E b \in 1..MaxB : \E h \in Sizes : \E w \in Sizes :
          /\ inp' = Shape(b, InChannels, h, w)
          /\ x' = Shape(b, InChannels, h, w)
    /\ fpc' = IF arch.cls = "DLinkNet34" THEN "up_sample" ELSE "first_conv"
    /\ UNCHANGED <<arch, stage, e, out>>
    /\ UNCHANGED <<ttaVars, ctrVars, mainVars, stepVars>>

\* the statement leaves y in x and goes on, or raises
Goes(y, next) ==
    IF y = NoShape THEN fpc' = "raised" /\ x' = x
    ELSE fpc' = next /\ x' = y

\* DLinkNet34 line 634: nn.Identity() or nn.Upsample(size=(1024, 1024))
UpSample ==
    /\ fpc = "up_sample"
    /\ Goes(IF arch.up = "none" THEN x ELSE Shape(x.b, x.c, UpSize, UpSize), "first_conv")
    /\ UNCHANGED <<arch, stage, inp, e, out>>
    /\ UNCHANGED <<ttaVars, ctrVars, mainVars, stepVars>>

\* first_conv, first_bn, first_relu
FirstConv ==
    /\ fpc = "first_conv"
    /\ Goes(Stem(x), "first_max_pool")
    /\ UNCHANGED <<arch, stage, inp, e, out>>
    /\ UNCHANGED <<ttaVars, ctrVars, mainVars, stepVars>>

\* first_max_pool
FirstMaxPool ==
    /\ fpc = "first_max_pool"
    /\ Goes(MaxPool(x), "encoder")
    /\ stage' = 1
    /\ UNCHANGED <<arch, inp, e, out>>
    /\ UNCHANGED <<ttaVars, ctrVars, mainVars, stepVars>>

\* the statement after the last encoder stage
AfterEncoders(cls) ==
    CASE cls = "LinkNet34" -> "decoder"
      [] cls \in {"DLinkNet18HeadsV1", "DLinkNet18HeadsV2", "DLinkNet18HeadsV3",
                  "CBAMDLinkNet18"} -> "fuse"
      [] OTHER -> "center"

\* eK = self.encoderK(...)
Encoder ==
    /\ fpc = "encoder"
    /\ LET y == EncoderStage(arch.cls, stage, x)
           last == stage = Depth(arch.cls)
       IN  /\ Goes(y, IF last THEN AfterEncoders(arch.cls) ELSE "encoder")
           /\ e' = [e EXCEPT ![stage] = y]
           /\ stage' = IF last THEN TopDecoder(arch.cls) ELSE stage + 1
    /\ UNCHANGED <<arch, inp, out>>
    /\ UNCHANGED <<ttaVars, ctrVars, mainVars, stepVars>>

\* DLinkNet18HeadsV1 lines 252-263: the heads viewed as (-1, 6, 8, 8),
\* gate_encoder, feat_encoder on e5, concatenation, join_encoder
FuseV1(t) ==
    LET h3 == 3 * HeadOut(t, HeadDim).c * t.b
        h == IF h3 % (6 * 8 * 8) = 0 THEN Shape(h3 \div (6 * 8 * 8), 6, 8, 8) ELSE NoShape
        f == BatchNorm2d(Conv2d(t, 512, 512, 3, 2, 1, 1), 512)
        g == BatchNorm2d(Conv2d(h, 6, 512, 1, 1, 0, 1), 512)
    IN  BatchNorm2d(Conv2d(Cat1(f, g), 2 * 512, 512, 1, 1, 0, 1), 512)

\* DLinkNet18HeadsV2 lines 345-356: the heads repeated over (eh, ew),
\* concatenated with e4, merge_encoder = Conv2d(3*128 + 512, 512, 3)
FuseV2(t) ==
    LET h == Shape(t.b, 3 * HeadOut(t, HeadDim).c, t.h, t.w)
    IN  BatchNorm2d(Conv2d(Cat1(h, t), 3 * 128 + 512, 512, 3, 1, 0, 1), 512)

\* DLinkNet18HeadsV3 lines 433-441: e4 = e4 + e4 * h1
FuseV3(t) == Broadcast(t, Broadcast(t, HeadOut(t, HeadDecodeDim)))

\* the statements between the encoder and d_block
Fuse ==
    /\ fpc = "fuse"
    /\ Goes(CASE arch.cls = "DLinkNet18HeadsV1" -> FuseV1(x)
              [] arch.cls = "DLinkNet18HeadsV2" -> FuseV2(x)
              [] arch.cls = "DLinkNet18HeadsV3" -> FuseV3(x)
              [] OTHER -> CBAMBlock(x, 512),
            "center")
    /\ UNCHANGED <<arch, stage, inp, e, out>>
    /\ UNCHANGED <<ttaVars, ctrVars, mainVars, stepVars>>

\* e4 = self.d_block(e4)
Center ==
    /\ fpc = "center"
    /\ Goes(CenterBlock(arch.cls, x), "decoder")
    /\ UNCHANGED <<arch, stage, inp, e, out>>
    /\ UNCHANGED <<ttaVars, ctrVars, mainVars, stepVars>>

\* dK = self.decoderK(...) + e(K-1), and d1 = self.decoder1(d2)
Decoder ==
    /\ fpc = "decoder"
    /\ LET y == DecoderBlock(x, DecIn(arch.cls, stage), DecOut(arch.cls, stage))
       IN  Goes(IF stage = 1 THEN y ELSE Broadcast(y, e[stage - 1]),
                IF stage = 1 THEN "final_deconv1" ELSE "decoder")
    /\ stage' = stage - 1
    /\ UNCHANGED <<arch, inp, e, out>>
    /\ UNCHANGED <<ttaVars, ctrVars, mainVars, stepVars>>

\* final_deconv1: ConvTranspose2d(filters[0], 32, 4, 2, 1), LinkNet34:
\* ConvTranspose2d(filters[0], 32, 3, stride=2)
FinalDeconv1 ==
    /\ fpc = "final_deconv1"
    /\ Goes(IF arch.cls = "LinkNet34"
            THEN ConvTranspose2d(x, Filters(arch.cls)[1], 32, 3, 2, 0, 0)
            ELSE ConvTranspose2d(x, Filters(arch.cls)[1], 32, 4, 2, 1, 0),
            "final_conv2")
    /\ UNCHANGED <<arch, stage, inp, e, out>>
    /\ UNCHANGED <<ttaVars, ctrVars, mainVars, stepVars>>

\* final_conv2: Conv2d(32, 32, 3, padding=1), LinkNet34: Conv2d(32, 32, 3)
FinalConv2 ==
    /\ fpc = "final_conv2"
    /\ Goes(IF arch.cls = "LinkNet34"
            THEN Conv2d(x, 32, 32, 3, 1, 0, 1)
            ELSE Conv2d(x, 32, 32, 3, 1, 1, 1),
            "final_conv3")
    /\ UNCHANGED <<arch, stage, inp, e, out>>
    /\ UNCHANGED <<ttaVars, ctrVars, mainVars, stepVars>>

\* final_conv3: Conv2d(32, num_classes, 3, padding=1), LinkNet34:
\* Conv2d(32, num_classes, 2, padding=1); return torch.sigmoid(out)
FinalConv3 ==
    /\ fpc = "final_conv3"
    /\ LET y == IF arch.cls = "LinkNet34"
                THEN Conv2d(x, 32, NumClasses, 2, 1, 1, 1)
                ELSE Conv2d(x, 32, NumClasses, 3, 1, 1, 1)
       IN  IF y = NoShape
           THEN fpc' = "raised" /\ UNCHANGED <<x, out>>
           ELSE fpc' = "returned" /\ x' = y /\ out' = y
    /\ UNCHANGED <<arch, stage, inp, e>>
    /\ UNCHANGED <<ttaVars, ctrVars, mainVars, stepVars>>

FwdNext ==
    \/ Construct
    \/ Call
    \/ UpSample
    \/ FirstConv
    \/ FirstMaxPool
    \/ Encoder
    \/ Fuse
    \/ Center
    \/ Decoder
    \/ FinalDeconv1
    \/ FinalConv2
    \/ FinalConv3

InitForward == TTAIdle /\ FwdInit /\ CtrIdle /\ MainIdle /\ StepsIdle

SpecForward == InitForward /\ [][FwdNext]_vars


(***************************************************************************)
(* DecoderBlock called on its own: __init__(in_channels, n_filters) and    *)
(* forward, lines 70-95.  arch holds the block's two arguments.            *)
(***************************************************************************)
\* in_channels also range over 4..MaxCh, the sides of the input over 1..MaxHW
MaxCh == 9
MaxHW == 4

BlockChannels == (4..MaxCh) \cup {64, 128, 256, 512, 1024, 2048}
BlockFilters == {1, 64, 128}

BlockInit ==
    /\ arch = [cls |-> "DecoderBlock", cin |-> 0, n |-> 0]
    /\ fpc = "block_new" /\ stage = 0
    /\ inp = NoShape /\ x = NoShape /\ out = NoShape
    /\ e = [k \in 1..5 |-> NoShape]

\* DecoderBlock(in_channels, n_filters)(x)
BlockCall ==
    /\ fpc = "block_new"
    /\ \E cin \in BlockChannels : \E n \in BlockFilters :
       \E b \in 1..MaxB : \E h \in 1..MaxHW : \E w \in 1..MaxHW :
          /\ arch' = [cls |-> "DecoderBlock", cin |-> cin, n |-> n]
          /\ inp' = Shape(b, cin, h, w)
          /\ x' = Shape(b, cin, h, w)
    /\ fpc' = "block_conv1"
    /\ UNCHANGED <<stage, e, out>>
    /\ UNCHANGED <<ttaVars, ctrVars, mainVars, stepVars>>

\* lines 86-88: conv1, norm1, relu1
BlockConv1 ==
    /\ fpc = "block_conv1"
    /\ Goes(DecoderConv1(x, arch.cin), "block_deconv2")
    /\ UNCHANGED <<arch, stage, inp, e, out>>
    /\ UNCHANGED <<ttaVars, ctrVars, mainVars, stepVars>>

\* lines 89-91: deconv2, norm2, relu2
BlockDeconv2 ==
    /\ fpc = "block_deconv2"
    /\ Goes(DecoderDeconv2(x, arch.cin), "block_conv3")
    /\ UNCHANGED <<arch, stage, inp, e, out>>
    /\ UNCHANGED <<ttaVars, ctrVars, mainVars, stepVars>>

\* lines 92-95: conv3, norm3, relu3, return x
BlockConv3 ==
    /\ fpc = "block_conv3"
    /\ LET y == DecoderConv3(x, arch.cin, arch.n)
       IN  IF y = NoShape
           THEN fpc' = "raised" /\ UNCHANGED <<x, out>>
           ELSE fpc' = "block_returned" /\ x' = y /\ out' = y
    /\ UNCHANGED <<arch, stage, inp, e>>
    /\ UNCHANGED <<ttaVars, ctrVars, mainVars, stepVars>>

BlockNext ==
    \/ BlockCall
    \/ BlockConv1
    \/ BlockDeconv2
    \/ BlockConv3

InitDecoder == TTAIdle /\ BlockInit /\ CtrIdle /\ MainIdle /\ StepsIdle

SpecDecoder == InitDecoder /\ [][BlockNext]_vars

(***************************************************************************)
(* DBlock / DBlockMoreDilate on values, lines 23-66.  A volume is one      *)
(* sample [c, h, w, v]: v maps <<channel, row, column>> to an integer.     *)
(* The weights of the dilated convolutions are a parameter of the block;   *)
(* every bias is zero (lines 31-34, 54-57).                                *)
(***************************************************************************)
\* channels range over 1..MaxC, sides over 1..MaxCtrSide
MaxC == 2
MaxCtrSide == 2

Vals == {-1, 0, 1}

Places(c, h, w) == (1..c) \X (0..(h - 1)) \X (0..(w - 1))

Volume(c, h, w, v) == [c |-> c, h |-> h, w |-> w, v |-> v]

\* the weight of the tap (ki, kj) in 0..2 from channel ci to channel co:
\*   "identity": 1 at the centre tap of the same channel
\*   "box":      1 at every tap of the same channel
\*   "mix":      1 at the centre tap of every channel
Kernels == {"identity", "box", "mix"}

Weight(kernel, co, ci, ki, kj) ==
    CASE kernel = "identity" -> IF co = ci /\ ki = 1 /\ kj = 1 THEN 1 ELSE 0
      [] kernel = "box" -> IF co = ci THEN 1 ELSE 0
      [] OTHER -> IF ki = 1 /\ kj = 1 THEN 1 ELSE 0

\* the input with its zero padding
Padded(t, ci, i, j) ==
    IF i \in 0..(t.h - 1) /\ j \in 0..(t.w - 1) THEN t.v[<<ci, i, j>>] ELSE 0

RECURSIVE SumTaps(_, _, _, _, _)
SumTaps(t, kernel, d, q, taps) ==
    IF taps = {} THEN 0
    ELSE LET a == CHOOSE a \in taps : TRUE
         IN  Weight(kernel, q[1], a[1], a[2], a[3])
                 * Padded(t, a[1], q[2] - d + a[2] * d, q[3] - d + a[3] * d)
               + SumTaps(t, kernel, d, q, taps \ {a})

\* nn.Conv2d(channel, channel, kernel_size=3, dilation=d, padding=d), bias 0
Dilate(t, kernel, d) ==
    LET h == ConvOut(t.h, 3, 1, d, d)
        w == ConvOut(t.w, 3, 1, d, d)
    IN  Volume(t.c, h, w,
               [q \in Places(t.c, h, w) |->
                   SumTaps(t, kernel, d, q, (1..t.c) \X (0..2) \X (0..2))])

\* non_linearity = F.relu
Relu(t) ==
    Volume(t.c, t.h, t.w, [q \in Places(t.c, t.h, t.w) |-> IF t.v[q] > 0 THEN t.v[q] ELSE 0])

\* a + b on volumes of one shape
AddV(a, b) == Volume(a.c, a.h, a.w, [q \in Places(a.c, a.h, a.w) |-> a.v[q] + b.v[q]])

Dilations(cls) == IF cls = "DBlock" THEN DBlockDilations ELSE DBlockMoreDilateDilations

\* volumes with one background value and one marked entry
Volumes ==
    UNION {{Volume(s[1], s[2], s[3],
                   [q \in Places(s[1], s[2], s[3]) |-> IF q = m THEN val ELSE bg]) :
               m \in Places(s[1], s[2], s[3]), val \in Vals, bg \in Vals} :
           s \in (1..MaxC) \X (1..MaxCtrSide) \X (1..MaxCtrSide)}

CtrInit ==
    /\ block \in [cls : {"DBlock", "DBlockMoreDilate"}, kernel : Kernels]
    /\ cx \in Volumes
    /\ cpc = "dilate"
    /\ dilate_outs = <<>>
    /\ center_out = NoVolume

\* mutant: every dilated convolution reads the block's input x
DilateStep_ReadsInput ==
    /\ cpc = "dilate"
    /\ LET k == Len(dilate_outs) + 1
       IN  /\ dilate_outs' = Append(dilate_outs, Relu(Dilate(cx, block.kernel, Dilations(block.cls)[k])))
           /\ cpc' = IF k = Len(Dilations(block.cls)) THEN "sum" ELSE "dilate"
    /\ UNCHANGED <<block, cx, center_out>>
    /\ UNCHANGED <<ttaVars, fwdVars, mainVars, stepVars>>

\* dilateK_out = non_linearity(self.dilateK(...)), K = 1 .. N: the first
\* convolution reads x, every other one the previous dilateK_out
DilateStep ==
    /\ cpc = "dilate"
    /\ LET k == Len(dilate_outs) + 1
           arg == IF k = 1 THEN cx ELSE dilate_outs[k - 1]
       IN  /\ dilate_outs' = Append(dilate_outs, Relu(Dilate(arg, block.kernel, Dilations(block.cls)[k])))
           /\ cpc' = IF k = Len(Dilations(block.cls)) THEN "sum" ELSE "dilate"
    /\ UNCHANGED <<block, cx, center_out>>
    /\ UNCHANGED <<ttaVars, fwdVars, mainVars, stepVars>>

RECURSIVE SumVolumes(_, _)
SumVolumes(t, ys) == IF ys = <<>> THEN t ELSE SumVolumes(AddV(t, Head(ys)), Tail(ys))

\* mutant: only the last stage is added to x
CenterReturn_LastOnly ==
    /\ cpc = "sum"
    /\ center_out' = AddV(cx, dilate_outs[Len(dilate_outs)])
    /\ cpc' = "returned"
    /\ UNCHANGED <<block, cx, dilate_outs>>
    /\ UNCHANGED <<ttaVars, fwdVars, mainVars, stepVars>>

\* out = x + dilate1_out + dilate2_out + ...; return out
CenterReturn ==
    /\ cpc = "sum"
    /\ center_out' = SumVolumes(cx, dilate_outs)
    /\ cpc' = "returned"
    /\ UNCHANGED <<block, cx, dilate_outs>>
    /\ UNCHANGED <<ttaVars, fwdVars, mainVars, stepVars>>

CtrNext ==
    \/ DilateStep
    \/ CenterReturn

InitCenter == TTAIdle /\ FwdIdle /\ CtrInit /\ MainIdle /\ StepsIdle

SpecCenter == InitCenter /\ [][CtrNext]_vars
(***************************************************************************)
(* Properties of forward.                                                  *)
(***************************************************************************)
Finished == fpc \in {"returned", "raised"}

Divisible32 == inp.h % 32 = 0 /\ inp.w % 32 = 0

\* C8: for every class and configuration, forward on a (B, 3, H, W) batch
\* with H and W divisible by 32 returns a tensor of shape (B, 1, H, W)
C8_ForwardShape ==
    (Finished /\ Divisible32)
        => fpc = "returned" /\ out = Shape(inp.b, NumClasses, inp.h, inp.w)

\* C9: DecoderBlock(C_in, C_out) maps (B, C_in, H, W) to (B, C_out, 2H, 2W)
\* for every H, W >= 1, with floor(C_in / 4) channels before and after the
\* stride-2 transposed convolution
C9_DecoderBlock ==
    /\ fpc # "raised"
    /\ (fpc = "block_deconv2") => x = Shape(inp.b, arch.cin \div 4, inp.h, inp.w)
    /\ (fpc = "block_conv3") => x = Shape(inp.b, arch.cin \div 4, 2 * inp.h, 2 * inp.w)
    /\ (fpc = "block_returned")
          => /\ out = Shape(inp.b, arch.n, 2 * inp.h, 2 * inp.w)
             /\ out = DecoderBlock(inp, arch.cin, arch.n)

C9_Witness ==
    /\ fpc = "block_returned"
    /\ inp.h = 1 /\ inp.w > 1
    /\ arch.cin % 4 # 0 /\ arch.n # arch.cin
    /\ out.w = 2 * inp.w

(***************************************************************************)
(* Properties of the center block.                                         *)
(***************************************************************************)
\* N: the number of dilated convolutions of the block
NumDilations == Len(Dilations(block.cls))

\* C10 as stated: with identity-weight kernels and zero bias the output is
\* input x (N + 1) for every input, N = 4 for DBlock, 5 for DBlockMoreDilate
C10_TimesNPlusOne ==
    (cpc = "returned" /\ block.kernel = "identity")
        => \A q \in Places(cx.c, cx.h, cx.w) : center_out.v[q] = (NumDilations + 1) * cx.v[q]

\* C10 amended: with identity-weight kernels and zero bias the output is
\* x + N * max(x, 0) at every entry: input x (N + 1) at the entries that
\* are not negative, the input itself at the negative ones
C10_RectifiedAccumulation ==
    (cpc = "returned" /\ block.kernel = "identity")
        => /\ NumDilations = (IF block.cls = "DBlock" THEN 4 ELSE 5)
           /\ center_out.c = cx.c /\ center_out.h = cx.h /\ center_out.w = cx.w
           /\ \A q \in Places(cx.c, cx.h, cx.w) :
                  center_out.v[q] = IF cx.v[q] >= 0 THEN (NumDilations + 1) * cx.v[q]
                              ELSE cx.v[q]

C10_Witness ==
    /\ cpc = "returned" /\ block.kernel = "identity"
    /\ \E q, r \in Places(cx.c, cx.h, cx.w) :
           /\ cx.v[q] > 0 /\ center_out.v[q] = (NumDilations + 1) * cx.v[q]
           /\ cx.v[r] < 0 /\ center_out.v[r] = cx.v[r]

\* two volumes of one shape
SameVolume(a, b) == a.c = b.c /\ a.h = b.h /\ a.w = b.w

\* C11 (every stage is the last element of dilate_outs in the state that
\* follows its computation, where it is compared with the convolution):
\* each of the chained 3x3 convolutions (dilations 1, 2, 4, 8 for
\* DBlock and 1, 2, 4, 8, 16 for DBlockMoreDilate, padding equal to the
\* dilation) returns the shape it receives, each one takes the previous
\* one's rectified output as input, and the block's output has the shape
\* of its input
C11_ShapePreserved ==
    /\ Len(dilate_outs) <= (IF block.cls = "DBlock" THEN 4 ELSE 5)
    /\ \A k \in 1..Len(dilate_outs) : SameVolume(dilate_outs[k], cx)
    /\ \A k \in (IF cpc = "returned" THEN {} ELSE {Len(dilate_outs)}) \ {0} :
           LET prev == IF k = 1 THEN cx ELSE dilate_outs[k - 1]
               conv == Dilate(prev, block.kernel, Pow2(k - 1))
           IN  /\ SameVolume(conv, prev)
               /\ dilate_outs[k] = Relu(conv)
    /\ (cpc \in {"sum", "returned"})
          => Len(dilate_outs) = (IF block.cls = "DBlock" THEN 4 ELSE 5)
    /\ (cpc = "returned") => SameVolume(center_out, cx)

C11_Witness ==
    /\ cpc = "returned" /\ block.cls = "DBlockMoreDilate"
    /\ cx.c = MaxC /\ cx.h = 1 /\ cx.w = MaxCtrSide
    /\ Len(dilate_outs) = 5
    /\ dilate_outs[2] # Relu(Dilate(cx, block.kernel, 2))
    /\ SameVolume(center_out, cx)

(***************************************************************************)
(* Properties of construction.                                             *)
(***************************************************************************)
\* the construction was asked for a weight source its class does not know
Unrecognized == fpc # "new" /\ arch.backbone \notin (Accepted(arch.cls) \cup {"omitted"})

\* C12: for every class, construction with an unrecognized weight-source
\* string fails with an error of the construction, yields no instance, and
\* never goes on with a default backbone in place of the requested one
C12_UnrecognizedFails ==
    Unrecognized
        => /\ fpc \in {"config_error", "type_error"}
           /\ HasBackbone(arch.cls) => fpc = "config_error"
           /\ arch.resnet = "none"
           /\ inp = NoShape /\ out = NoShape

C12_Witness ==
    /\ fpc = "config_error"
    /\ arch.cls = "DLinkNet18HeadsV1" /\ arch.backbone = "bogus"
    /\ arch.resnet = "none"

(***************************************************************************)
(* Properties of the skip additions.                                       *)
(***************************************************************************)
\* the two operands of the skip addition that forward is about to run
AtSkip == fpc = "decoder" /\ stage > 1
DecoderOut == DecoderBlock(x, DecIn(arch.cls, stage), DecOut(arch.cls, stage))
SkipMap == e[stage - 1]

\* C13: whenever a decoder stage's output and its skip-connection encoder
\* feature map differ in shape, forward raises at that skip addition; it
\* never goes on with one operand broadcast to the other's shape
C13_MismatchRaises ==
    [][(AtSkip /\ DecoderOut # NoShape /\ DecoderOut # SkipMap) => fpc' = "raised"]_vars

\* C16: in every variant and for every input with H and W divisible by 32,
\* the fused feature map of a head-fusion variant reaches the center block,
\* and each skip addition decoderK(...) + e(K-1) combines two feature maps
\* of identical channel count and identical spatial size
C16_SkipsMatch ==
    [][Divisible32
          => /\ (fpc = "fuse") => fpc' = "center"
             /\ AtSkip => (DecoderOut = SkipMap /\ fpc' # "raised")]_vars

(***************************************************************************)
(* main_segment.py: the losses and the metric of shared_step (lines        *)
(* 107-117) and of test_step (lines 95-100), on one DLinkNetModel object.  *)
(* A prediction is a sequence of probabilities in units of 1 / HalfDen, a  *)
(* label a sequence over {0, 1}; a ratio is a record [num, den].           *)
(***************************************************************************)
\* a tensor holds 1..MaxPix entries, the trainer runs at most MaxSteps steps
MaxPix == 2
MaxSteps == 2

\* torch's BCELoss clamps each logarithm at -100
LogClamp == 100

\* tensors of n entries with one background value and one marked entry
OneMarked(n, values) ==
    {[i \in 1..n |-> IF i = m THEN val ELSE bg] : m \in 1..n, val \in values, bg \in values}

Probs(n) == OneMarked(n, 0..HalfDen)
Masks(n) == OneMarked(n, {0, HalfDen})
\* labels: the first k entries are road
Labels(n) == {[i \in 1..n |-> IF i <= k THEN 1 ELSE 0] : k \in 0..n}

RECURSIVE SumTo(_, _)
SumTo(f, n) == IF n = 0 THEN 0 ELSE f[n] + SumTo(f, n - 1)

\* nn.BCELoss(): the mean of -(g log p + (1 - g) log(1 - p)); an entry
\* costs 0, log 2 (p = 1/2) or LogClamp: [clamped, log2, n] stands for
\* (clamped * LogClamp + log2 * ln 2) / n
BCELoss(p, g) ==
    LET n == Len(p)
    IN  [clamped |-> LogClamp * Cardinality({i \in 1..n : (g[i] = 1 /\ p[i] = 0)
                                               \/ (g[i] = 0 /\ p[i] = HalfDen)}),
         log2 |-> Cardinality({i \in 1..n : p[i] \notin {0, HalfDen}}),
         n |-> n]

\* mutant: no smoothing
Eps_Zero == [num |-> 0, den |-> 1]

\* the smoothing constant of the Dice loss, a small positive ratio
Eps == [num |-> 1, den |-> 1000]

\* the value of a quotient by zero
NaN == [num |-> 0, den |-> 0]

\* Dice loss = 1 - (2 sum(p g) + eps) / (sum(p^2) + sum(g^2) + eps), both
\* sides of the quotient scaled by HalfDen^2 * Eps.den
DiceLoss(p, g) ==
    LET n == Len(p)
        pg == SumTo([i \in 1..n |-> p[i] * g[i]], n)
        pp == SumTo([i \in 1..n |-> p[i] * p[i]], n)
        gg == SumTo([i \in 1..n |-> g[i] * g[i]], n)
        top == 2 * pg * HalfDen * Eps.den + Eps.num * HalfDen * HalfDen
        bot == pp * Eps.den + gg * HalfDen * HalfDen * Eps.den
                 + Eps.num * HalfDen * HalfDen
    IN  IF bot = 0 THEN NaN ELSE [num |-> bot - top, den |-> bot]

\* BinaryJaccardIndex.update: predictions above the threshold 0.5 count as
\* 1, and the confusion counts of the pair are added to the state
Update(st, p, g) ==
    LET n == Len(p)
        hard == [i \in 1..n |-> IF 2 * p[i] > HalfDen THEN 1 ELSE 0]
        count(a, b) == Cardinality({i \in 1..n : hard[i] = a /\ g[i] = b})
    IN  [tp |-> st.tp + count(1, 1), fp |-> st.fp + count(1, 0),
         fn |-> st.fn + count(0, 1), tn |-> st.tn + count(0, 0)]

\* BinaryJaccardIndex.compute: tp / (tp + fp + fn), 0 when nothing is counted
Compute(st) ==
    IF st.tp + st.fp + st.fn = 0 THEN [num |-> 0, den |-> 1]
    ELSE [num |-> st.tp, den |-> st.tp + st.fp + st.fn]

\* mutant: the call returns the value of the state accumulated so far
MetricForward_Running(st, p, g) ==
    [val |-> Compute(Update(st, p, g)), state |-> Update(st, p, g)]

\* self.metric(predictions, labels): the value of this pair alone, from a
\* fresh state; the pair's counts are also merged into the object's state
MetricForward(st, p, g) ==
    [val |-> Compute(Update(ZeroState, p, g)), state |-> Update(st, p, g)]

StepsInit ==
    /\ kind = "none"
    /\ pair = NoBatch /\ result = NoResult
    /\ metric = ZeroState
    /\ nsteps = 0

\* lines 112-117 and 95-100: criterion1, criterion2 and metric on the pair
Criteria(name, p, g) ==
    /\ nsteps < MaxSteps
    /\ result' = [bce |-> BCELoss(p, g), dice |-> DiceLoss(p, g),
                  iou |-> MetricForward(metric, p, g).val]
    /\ metric' = MetricForward(metric, p, g).state
    /\ pair' = [p |-> p, g |-> g]
    /\ kind' = name
    /\ nsteps' = nsteps + 1
    /\ UNCHANGED <<ttaVars, fwdVars, ctrVars, mainVars>>

\* training_step: the network's probabilities against the labels
TrainingStep ==
    \E n \in 1..MaxPix : \E p \in Probs(n) : \E g \in Labels(n) : Criteria("training", p, g)

ValidationStep ==
    \E n \in 1..MaxPix : \E p \in Probs(n) : \E g \in Labels(n) : Criteria("validation", p, g)

\* test_step: the binary masks of the augmented prediction against the labels
TestStep ==
    \E n \in 1..MaxPix : \E p \in Masks(n) : \E g \in Labels(n) : Criteria("test", p, g)

StepsNext ==
    \/ TrainingStep
    \/ ValidationStep
    \/ TestStep

InitSteps == TTAIdle /\ FwdIdle /\ CtrIdle /\ MainIdle /\ StepsInit

SpecSteps == InitSteps /\ [][StepsNext]_vars

(***************************************************************************)
(* Properties of the losses and the metric.                                *)
(***************************************************************************)
\* the pair of the last step is all zeros
AllZero == kind # "none" /\ \A i \in 1..Len(pair.p) : pair.p[i] = 0 /\ pair.g[i] = 0

\* C14 as stated: an all-zero prediction against an all-zero label gives a
\* defined Dice loss, and its value is 1
C14_DegenerateIsOne ==
    AllZero => /\ result.dice # NaN
               /\ result.dice.num = result.dice.den

\* C14 amended: an all-zero prediction against an all-zero label gives a
\* defined Dice loss (the quotient is eps / eps = 1), and its value is 0
C14_DegenerateIsZero ==
    AllZero => /\ result.dice # NaN
               /\ result.dice.den > 0
               /\ result.dice.num = 0

C14_Witness ==
    /\ AllZero /\ Len(pair.p) = MaxPix
    /\ result.dice # NaN /\ result.dice.num = 0

\* two ratios of one value
SameRatio(a, b) == a.num * b.den = b.num * a.den

MaxBatchSize == 9

\* batch_size // 4
TestDivisor == 4
\* the views of one forward pass of test_step (img3, img4)
ViewsPerPass == 4

BatchSizeArgs == (0 - MaxBatchSize)..MaxBatchSize
\* --test_ckpt_path: left out (None), empty, or a path
CkptArgs == {"None", "", "last.ckpt"}

\* Python's truth value of test_ckpt_path
Truthy(path) == path \notin {"None", ""}

MainInit ==
    /\ mpc = "parse_args"
    /\ batch_size = 0 /\ test_batch_size = 0
    /\ test_ckpt_path = "None"
    /\ calls = <<>>

\* line 220: PARAMS = parse_args(); lines 127-130, 134
ParseArgs ==
    /\ mpc = "parse_args"
    /\ batch_size' \in BatchSizeArgs
    /\ test_ckpt_path' \in CkptArgs
    /\ mpc' = "l131"
    /\ UNCHANGED <<test_batch_size, calls>>
    /\ UNCHANGED <<ttaVars, fwdVars, ctrVars, stepVars>>

\* mutant: the quotient is rounded up
Line131_RoundsUp ==
    /\ mpc = "l131"
    /\ test_batch_size' = (batch_size + TestDivisor - 1) \div TestDivisor
    /\ mpc' = "l168"
    /\ UNCHANGED <<batch_size, test_ckpt_path, calls>>
    /\ UNCHANGED <<ttaVars, fwdVars, ctrVars, stepVars>>

\* line 131: test_batch_size = 1 if batch_size // 4 == 0 else batch_size // 4
Line131 ==
    /\ mpc = "l131"
    /\ test_batch_size' = IF batch_size \div TestDivisor = 0 THEN 1
                          ELSE batch_size \div TestDivisor
    /\ mpc' = "l168"
    /\ UNCHANGED <<batch_size, test_ckpt_path, calls>>
    /\ UNCHANGED <<ttaVars, fwdVars, ctrVars, stepVars>>

\* lines 168-175: DataLoader raises unless its batch_size is positive
Loaders ==
    /\ mpc = "l168"
    /\ mpc' = IF batch_size >= 1 /\ test_batch_size >= 1 THEN "l197" ELSE "raised"
    /\ UNCHANGED <<batch_size, test_batch_size, test_ckpt_path, calls>>
    /\ UNCHANGED <<ttaVars, fwdVars, ctrVars, stepVars>>

\* mutant: training runs whatever test_ckpt_path is
If197_Always ==
    /\ mpc = "l197"
    /\ mpc' = "l198"
    /\ UNCHANGED <<batch_size, test_batch_size, test_ckpt_path, calls>>
    /\ UNCHANGED <<ttaVars, fwdVars, ctrVars, stepVars>>

\* line 197: if not test_ckpt_path
If197 ==
    /\ mpc = "l197"
    /\ mpc' = IF ~Truthy(test_ckpt_path) THEN "l198" ELSE "l201"
    /\ UNCHANGED <<batch_size, test_batch_size, test_ckpt_path, calls>>
    /\ UNCHANGED <<ttaVars, fwdVars, ctrVars, stepVars>>

\* line 198: trainer.fit(...)
Fit ==
    /\ mpc = "l198"
    /\ calls' = Append(calls, [op |-> "fit", ckpt_path |-> "None"])
    /\ mpc' = "l201"
    /\ UNCHANGED <<batch_size, test_batch_size, test_ckpt_path>>
    /\ UNCHANGED <<ttaVars, fwdVars, ctrVars, stepVars>>

\* line 201: trainer.test(..., ckpt_path=test_ckpt_path)
Test ==
    /\ mpc = "l201"
    /\ calls' = Append(calls, [op |-> "test", ckpt_path |-> test_ckpt_path])
    /\ mpc' = "exit"
    /\ UNCHANGED <<batch_size, test_batch_size, test_ckpt_path>>
    /\ UNCHANGED <<ttaVars, fwdVars, ctrVars, stepVars>>

MainNext ==
    \/ ParseArgs
    \/ Line131
    \/ Loaders
    \/ If197
    \/ Fit
    \/ Test

InitMain == TTAIdle /\ FwdIdle /\ CtrIdle /\ MainInit /\ StepsIdle

SpecMain == InitMain /\ [][MainNext]_vars

(***************************************************************************)
(* Properties of main.                                                     *)
(***************************************************************************)
Max(a, b) == IF a >= b THEN a ELSE b

\* line 131 has run
Assigned131 == mpc \notin {"idle", "parse_args", "l131"}

\* C19: for every batch_size >= 1, test_batch_size = max(1, floor(batch_size
\* / 4)), so test_batch_size >= 1 and 4 x test_batch_size <= max(4, batch_size)
C19_TestBatchSize ==
    (Assigned131 /\ batch_size >= 1)
        => /\ test_batch_size = Max(1, batch_size \div 4)
           /\ test_batch_size >= 1
           /\ ViewsPerPass * test_batch_size <= Max(4, batch_size)

C19_Witness ==
    /\ mpc = "exit"
    /\ batch_size > 2 * TestDivisor /\ batch_size % TestDivisor # 0
    /\ test_batch_size = 2

\* the positions in calls of the calls of one operation
CallsOf(op) == {i \in 1..Len(calls) : calls[i].op = op}

\* C20: trainer.test is invoked exactly once on every run that reaches the
\* end of main, after trainer.fit when training happens; trainer.fit is
\* invoked exactly once iff no test checkpoint path is given; with a path
\* training is never invoked and the evaluation gets that checkpoint
C20_RunOrdering ==
    /\ Cardinality(CallsOf("fit")) <= 1 /\ Cardinality(CallsOf("test")) <= 1
    /\ \A i \in CallsOf("test") : \A j \in CallsOf("fit") : j < i
    /\ Truthy(test_ckpt_path) => CallsOf("fit") = {}
    /\ (mpc = "exit")
          => /\ Cardinality(CallsOf("test")) = 1
             /\ calls[Len(calls)] = [op |-> "test", ckpt_path |-> test_ckpt_path]
             /\ (Cardinality(CallsOf("fit")) = 1) <=> ~Truthy(test_ckpt_path)

C20_Witness ==
    /\ mpc = "exit"
    /\ test_ckpt_path = "last.ckpt"
    /\ calls = <<[op |-> "test", ckpt_path |-> "last.ckpt"]>>

====
